---------------------------- MODULE Spec2Model ----------------------------
(***************************************************************************)
(* Double-entry ledger of the Holiday-PnL back office: chart of accounts,  *)
(* journal engine, auto-posting rules (booking, expense, deposit) and the  *)
(* trial balance, as implemented in src/app/api/accounting.py,             *)
(* bookings.py, expenses.py and deposits.py over the tables of             *)
(* src/app/models/models.py.                                               *)
(*                                                                         *)
(* Money.  A Decimal value v is represented by the integer 200 * v, i.e.   *)
(* in units of 0.005 (half a minor unit).  A value stored in a             *)
(* Numeric(p, 2) column is always a multiple of 2.                         *)
(*                                                                         *)
(* Identifiers.  A UUID is a pair <<kind, n>>; NULL is the empty tuple.    *)
(***************************************************************************)
EXTENDS Integers, Sequences, FiniteSets, TLC

VARIABLES
    accounts,       \* accounts table: account id -> row
    entries,        \* journal_entries table with its journal_lines: entry id -> row
    minted,         \* uuid4() calls so far, per kind of row: the next id of a kind is fresh
    today,          \* the clock: date.today() / datetime.now(), a day number
    bookings,       \* bookings table: booking id -> row
    expenses,       \* expenses table: expense id -> row
    tenancies,      \* tenancies table: tenancy id -> row
    deposit_transactions, \* deposit_transactions table, in insertion order
    last,           \* the last request that committed a change
    ops,            \* how many requests have committed a change
    issued,         \* history: the entry numbers persisted so far, in order of assignment
    requests        \* in-flight concurrent requests: request number -> its position

vars == <<accounts, entries, minted, today, bookings, expenses, tenancies,
          deposit_transactions, last, ops, issued, requests>>

-----------------------------------------------------------------------------
(* Bounds of the model *)

MaxOps == 3             \* requests that commit a change along one behaviour
MaxDay == 2             \* the clock runs over days 1..MaxDay
MaxRequests == 3        \* concurrent requests in flight

-----------------------------------------------------------------------------
(* Identifiers, dates, money *)

NULL == <<>>
Uuid(kind, n) == <<kind, n>>

Dates == 1..MaxDay
\* One model day per calendar year: day 1 falls in 2025, day 2 in 2026, ...
YearOf(d) == 2024 + d

\* Decimal literals: Money(u, c) is u.cc, HalfCent is 0.005
Money(u, c) == 200 * u + 2 * c
HalfCent == Money(0, 0) + 1

\* A Decimal written to a Numeric(_, 2) column: PostgreSQL rounds it to two
\* fractional digits, ties away from zero.
StoreNumeric(x) ==
    IF x >= 0 THEN ((x + 1) \div 2) * 2 ELSE 0 - ((((0 - x) + 1) \div 2) * 2)

Max(S) == CHOOSE x \in S : \A y \in S : y <= x

RECURSIVE SumDebit(_)
SumDebit(lines) ==
    IF lines = <<>> THEN 0 ELSE Head(lines).debit + SumDebit(Tail(lines))

RECURSIVE SumCredit(_)
SumCredit(lines) ==
    IF lines = <<>> THEN 0 ELSE Head(lines).credit + SumCredit(Tail(lines))

-----------------------------------------------------------------------------
(* Chart of accounts *)

P1 == Uuid("property", 1)
P2 == Uuid("property", 2)
Properties == {P1, P2}

\* The codes the auto-posting rules look up ("matching seeded COA").
SeededCodes ==
    {"1102", "1201", "2100", "2302", "4101", "4102", "4301", "5100", "5101"}

AccountType(code) ==
    CASE code \in {"1102", "1201"} -> "asset"
      [] code \in {"2100", "2302"} -> "liability"
      [] code \in {"4101", "4102", "4301"} -> "revenue"
      [] OTHER -> "expense"

\* The seeded account of a code has the id <<"account", code>>.
SeedId(code) == Uuid("account", code)

Account(code, is_system, is_active) ==
    [code |-> code, account_type |-> AccountType(code),
     is_system |-> is_system, is_active |-> is_active]

\* The seeded accounts flagged is_system (no request sets or clears the flag)
SystemCodes == {"4301"}

SeededAccounts ==
    [id \in {SeedId(c) : c \in SeededCodes} |->
        Account(id[2], id[2] \in SystemCodes, TRUE)]

\* get_account_by_code: the account row of a code, NULL when there is none
\* (the handler then raises 404).
AccountIdByCode(code) ==
    IF \E id \in DOMAIN accounts : accounts[id].code = code
    THEN CHOOSE id \in DOMAIN accounts : accounts[id].code = code
    ELSE NULL

-----------------------------------------------------------------------------
(* Entry numbers: "JE-<year>-<NNNNN>" *)

RECURSIVE Digits(_)
Digits(n) == IF n < 10 THEN <<n>> ELSE Digits(n \div 10) \o <<n % 10>>

RECURSIVE ZeroPad5(_)
ZeroPad5(ds) == IF Len(ds) >= 5 THEN ds ELSE ZeroPad5(<<0>> \o ds)

\* f"{prefix}{next_seq:05d}": the prefix "JE-<year>-" and the padded digits
FormatNumber(year, seq) == [prefix |-> year, digits |-> ZeroPad5(Digits(seq))]

RECURSIVE ParseInt(_)
\* CAST(SUBSTRING(entry_number FROM 9) AS INTEGER)
ParseInt(ds) ==
    IF ds = <<>> THEN 0
    ELSE 10 * ParseInt(SubSeq(ds, 1, Len(ds) - 1)) + ds[Len(ds)]

SeqOf(entry_number) == ParseInt(entry_number.digits)

\* generate_journal_number over the rows `ents` a transaction sees
generate_journal_number(ents) ==
    LET year == YearOf(today)
        seqs == {SeqOf(ents[id].entry_number) :
                    id \in {i \in DOMAIN ents : ents[i].entry_number.prefix = year}}
        result == IF seqs = {} THEN 0 ELSE Max(seqs)
    IN  FormatNumber(year, result + 1)


-----------------------------------------------------------------------------
(* Journal engine *)

EntryId(n) == Uuid("entry", n)
Stamp(d) == <<d>>           \* a datetime taken on day d

\* A JournalLineCreate
LineData(account_id, debit, credit, property_id, booking_id, expense_id, tenancy_id) ==
    [account_id |-> account_id, debit |-> debit, credit |-> credit,
     property_id |-> property_id, booking_id |-> booking_id,
     expense_id |-> expense_id, tenancy_id |-> tenancy_id]

\* A JournalEntryCreate
EntryData(entry_date, source, source_id, lines) ==
    [entry_date |-> entry_date, source |-> source, source_id |-> source_id,
     lines |-> lines]

\* The journal_lines row written for the i-th (0-based) line of a request:
\* debit and credit are Numeric(14, 2) columns.
JournalLine(line_data, i) ==
    [account_id |-> line_data.account_id,
     debit |-> StoreNumeric(line_data.debit),
     credit |-> StoreNumeric(line_data.credit),
     property_id |-> line_data.property_id,
     booking_id |-> line_data.booking_id,
     expense_id |-> line_data.expense_id,
     tenancy_id |-> line_data.tenancy_id,
     line_order |-> i]

JournalEntry(entry_number, entry_date, source, source_id, is_posted, posted_at, lines) ==
    [entry_number |-> entry_number, entry_date |-> entry_date,
     source |-> source, source_id |-> source_id,
     is_posted |-> is_posted, is_locked |-> FALSE, is_reversed |-> FALSE,
     reversed_by_id |-> NULL, posted_at |-> posted_at, lines |-> lines]

validate_journal_balance(lines) == SumDebit(lines) = SumCredit(lines)

\* The foreign keys of a journal line that the database checks at INSERT,
\* `rows` being the ids of the property, booking, expense and tenancy rows
ForeignKeysHold(line_data, rows) ==
    /\ line_data.property_id \in rows \cup {NULL}
    /\ line_data.booking_id \in rows \cup {NULL}
    /\ line_data.expense_id \in rows \cup {NULL}
    /\ line_data.tenancy_id \in rows \cup {NULL}

Failed(res, ents) == [res |-> res, entries |-> ents, id |-> NULL]

\* create_journal_entry as it would be without the check of the number of lines
CreateWithoutLengthCheck(ents, nid, entry_data, rows) ==
    LET lines == entry_data.lines
        entry == JournalEntry(generate_journal_number(ents), entry_data.entry_date,
                              entry_data.source, entry_data.source_id, FALSE, NULL,
                              [i \in 1..Len(lines) |-> JournalLine(lines[i], i - 1)])
    IN  IF ~validate_journal_balance(lines) THEN Failed("unbalanced", ents)
        ELSE IF \E i \in 1..Len(lines) : lines[i].account_id \notin DOMAIN accounts
             THEN Failed("unknown_account", ents)
        ELSE IF \E i \in 1..Len(lines) : ~ForeignKeysHold(lines[i], rows)
             THEN Failed("integrity_error", ents)
        ELSE [res |-> "ok", entries |-> ents @@ (EntryId(nid) :> entry),
              id |-> EntryId(nid)]

\* create_journal_entry on the journal rows `ents`, with EntryId(nid) as the fresh
\* uuid4() and `rows` the ids the lines' foreign keys may reference.
\* A failure after the flush of the header leaves the transaction uncommitted;
\* closing the session rolls it back.
create_journal_entry(ents, nid, entry_data, rows) ==
    LET lines == entry_data.lines
        entry == JournalEntry(generate_journal_number(ents), entry_data.entry_date,
                              entry_data.source, entry_data.source_id, FALSE, NULL,
                              [i \in 1..Len(lines) |-> JournalLine(lines[i], i - 1)])
    IN  IF ~validate_journal_balance(lines) THEN Failed("unbalanced", ents)
        ELSE IF Len(lines) < 2 THEN Failed("too_few_lines", ents)
        ELSE IF \E i \in 1..Len(lines) : lines[i].account_id \notin DOMAIN accounts
             THEN Failed("unknown_account", ents)
        ELSE IF \E i \in 1..Len(lines) : ~ForeignKeysHold(lines[i], rows)
             THEN Failed("integrity_error", ents)
        ELSE [res |-> "ok", entries |-> ents @@ (EntryId(nid) :> entry),
              id |-> EntryId(nid)]

\* post_journal_entry as it would be without the check of is_posted
PostWithoutPostedCheck(ents, journal_id) ==
    IF journal_id \notin DOMAIN ents THEN Failed("not_found", ents)
    ELSE IF ents[journal_id].is_locked THEN Failed("locked", ents)
    ELSE [res |-> "ok",
          entries |-> [ents EXCEPT ![journal_id].is_posted = TRUE,
                                   ![journal_id].posted_at = Stamp(today)],
          id |-> journal_id]

\* post_journal_entry
post_journal_entry(ents, journal_id) ==
    IF journal_id \notin DOMAIN ents THEN Failed("not_found", ents)
    ELSE IF ents[journal_id].is_posted THEN Failed("already_posted", ents)
    ELSE IF ents[journal_id].is_locked THEN Failed("locked", ents)
    ELSE [res |-> "ok",
          entries |-> [ents EXCEPT ![journal_id].is_posted = TRUE,
                                   ![journal_id].posted_at = Stamp(today)],
          id |-> journal_id]

\* original.lines is loaded through a relationship that states no order_by:
\* the rows come back in an order the database chooses.
LoadOrders(lines) ==
    {[i \in 1..Len(lines) |-> lines[p[i]]] : p \in Permutations(1..Len(lines))}

ReversedLine(orig_line, i) ==
    [orig_line EXCEPT !.debit = orig_line.credit, !.credit = orig_line.debit,
                      !.line_order = i]

\* reverse_journal_entry as it would be without the check of is_reversed
ReverseWithoutReversedCheck(ents, nid, journal_id, loaded) ==
    IF journal_id \notin DOMAIN ents THEN Failed("not_found", ents)
    ELSE IF ~ents[journal_id].is_posted THEN Failed("not_posted", ents)
    ELSE LET reversal ==
                 JournalEntry(generate_journal_number(ents), today, "adjustment",
                              journal_id, TRUE, Stamp(today),
                              [i \in 1..Len(loaded) |-> ReversedLine(loaded[i], i - 1)])
         IN  [res |-> "ok",
              entries |-> [ents EXCEPT ![journal_id].is_reversed = TRUE,
                                       ![journal_id].reversed_by_id = EntryId(nid)]
                          @@ (EntryId(nid) :> reversal),
              id |-> EntryId(nid)]

\* reverse_journal_entry, the lines of the original having been loaded as `loaded`
reverse_journal_entry(ents, nid, journal_id, loaded) ==
    IF journal_id \notin DOMAIN ents THEN Failed("not_found", ents)
    ELSE IF ~ents[journal_id].is_posted THEN Failed("not_posted", ents)
    ELSE IF ents[journal_id].is_reversed THEN Failed("already_reversed", ents)
    ELSE LET reversal ==
                 JournalEntry(generate_journal_number(ents), today, "adjustment",
                              journal_id, TRUE, Stamp(today),
                              [i \in 1..Len(loaded) |-> ReversedLine(loaded[i], i - 1)])
         IN  [res |-> "ok",
              entries |-> [ents EXCEPT ![journal_id].is_reversed = TRUE,
                                       ![journal_id].reversed_by_id = EntryId(nid)]
                          @@ (EntryId(nid) :> reversal),
              id |-> EntryId(nid)]

Without(ents, ids) == [id \in DOMAIN ents \ ids |-> ents[id]]

\* delete_journal_entry as it would be without the check of is_posted
DeleteWithoutPostedCheck(ents, journal_id) ==
    IF journal_id \notin DOMAIN ents THEN Failed("not_found", ents)
    ELSE IF ents[journal_id].is_locked THEN Failed("locked", ents)
    ELSE [res |-> "ok", entries |-> Without(ents, {journal_id}), id |-> journal_id]

\* delete_journal_entry; the lines go with the entry (cascade)
delete_journal_entry(ents, journal_id) ==
    IF journal_id \notin DOMAIN ents THEN Failed("not_found", ents)
    ELSE IF ents[journal_id].is_posted THEN Failed("posted", ents)
    ELSE IF ents[journal_id].is_locked THEN Failed("locked", ents)
    ELSE [res |-> "ok", entries |-> Without(ents, {journal_id}), id |-> journal_id]

-----------------------------------------------------------------------------
(* Auto-posting rules *)

BookingId(n) == Uuid("booking", n)
ExpenseId(n) == Uuid("expense", n)
TenancyId(n) == Uuid("tenancy", n)

\* The idempotency check as it would read if it looked at posted entries only
PostedJournalExists(ents, source, source_id) ==
    \E id \in DOMAIN ents :
        ents[id].source = source /\ ents[id].source_id = source_id /\ ents[id].is_posted

\* The idempotency check of the booking and the expense rule:
\* SELECT ... FROM journal_entries WHERE source = :source AND source_id = :source_id
JournalExists(ents, source, source_id) ==
    \E id \in DOMAIN ents :
        ents[id].source = source /\ ents[id].source_id = source_id

\* bookings.gross_revenue, a computed column (extra_guest_fee and other_fees are 0)
gross_revenue(booking) ==
    booking.subtotal_accommodation + booking.cleaning_fee - booking.discount_amount

\* The booking lines as they would be with the commission line not guarded
BookingLinesUnguarded(booking_id, booking) ==
    LET gross == gross_revenue(booking)
        commission == booking.platform_commission
        cleaning == booking.cleaning_fee
        line(code, debit, credit) ==
            LineData(AccountIdByCode(code), debit, credit,
                     booking.property_id, booking_id, NULL, NULL)
    IN  <<line("1201", gross - commission, 0), line("5101", commission, 0)>>
        \o (IF gross - cleaning > 0 THEN <<line("4101", 0, gross - cleaning)>> ELSE <<>>)
        \o (IF cleaning > 0 THEN <<line("4102", 0, cleaning)>> ELSE <<>>)

\* The lines generate_booking_journal derives for a booking
BookingLines(booking_id, booking) ==
    LET gross == gross_revenue(booking)
        commission == booking.platform_commission
        cleaning == booking.cleaning_fee
        net_receivable == gross - commission
        accommodation_rev == gross - cleaning
        line(code, debit, credit) ==
            LineData(AccountIdByCode(code), debit, credit,
                     booking.property_id, booking_id, NULL, NULL)
    IN  <<line("1201", net_receivable, 0)>>
        \o (IF commission > 0 THEN <<line("5101", commission, 0)>> ELSE <<>>)
        \o (IF accommodation_rev > 0 THEN <<line("4101", 0, accommodation_rev)>> ELSE <<>>)
        \o (IF cleaning > 0 THEN <<line("4102", 0, cleaning)>> ELSE <<>>)

\* generate_booking_journal over the journal rows `ents` and the booking rows `bks`
generate_booking_journal(ents, nid, bks, booking_id, rows) ==
    IF booking_id \notin DOMAIN bks THEN Failed("not_found", ents)
    ELSE IF JournalExists(ents, "booking", booking_id) THEN Failed("duplicate", ents)
    ELSE IF \E code \in {"1201", "4101", "4102", "5101"} : AccountIdByCode(code) = NULL
         THEN Failed("account_not_found", ents)
    ELSE create_journal_entry(ents, nid,
             EntryData(bks[booking_id].check_in, "booking", booking_id,
                       BookingLines(booking_id, bks[booking_id])),
             rows)

\* expenses.total_amount, a computed column
total_amount(expense) == expense.amount + expense.vat_amount

\* The expense lines as they would be with the VAT left out of the total
ExpenseLinesNetOfVat(expense_id, expense) ==
    LET line(code, debit, credit) ==
            LineData(AccountIdByCode(code), debit, credit,
                     expense.property_id, NULL, expense_id, NULL)
    IN  <<line("5100", expense.amount, 0), line("2100", 0, expense.amount)>>

\* The lines generate_expense_journal derives for an expense
ExpenseLines(expense_id, expense) ==
    LET amount == expense.amount
        vat == expense.vat_amount
        total == IF total_amount(expense) # 0 THEN total_amount(expense)
                 ELSE amount + vat
        line(code, debit, credit) ==
            LineData(AccountIdByCode(code), debit, credit,
                     expense.property_id, NULL, expense_id, NULL)
    IN  <<line("5100", total, 0), line("2100", 0, total)>>

\* generate_expense_journal over the journal rows `ents` and the expense rows `exps`
generate_expense_journal(ents, nid, exps, expense_id, rows) ==
    IF expense_id \notin DOMAIN exps THEN Failed("not_found", ents)
    ELSE IF JournalExists(ents, "expense", expense_id) THEN Failed("duplicate", ents)
    ELSE IF \E code \in {"5100", "2100"} : AccountIdByCode(code) = NULL
         THEN Failed("account_not_found", ents)
    ELSE create_journal_entry(ents, nid,
             EntryData(exps[expense_id].expense_date, "expense", expense_id,
                       ExpenseLines(expense_id, exps[expense_id])),
             rows)

\* The deposit lines as they would be with a refund booked like a receipt
DepositLinesRefundAsReceipt(transaction_type, amount) ==
    LET acc_bank == AccountIdByCode("1102")
        acc_deposit_held == AccountIdByCode("2302")
        acc_deposit_forfeit == AccountIdByCode("4301")
        pair(debit_account, credit_account) ==
            <<[account_id |-> debit_account, debit |-> amount, credit |-> 0],
              [account_id |-> credit_account, debit |-> 0, credit |-> amount]>>
    IN  CASE transaction_type = "received" -> pair(acc_bank, acc_deposit_held)
          [] transaction_type = "refund" -> pair(acc_bank, acc_deposit_held)
          [] transaction_type = "deduction" -> pair(acc_deposit_held, acc_deposit_forfeit)
          [] OTHER -> <<>>

\* The two journal lines create_deposit_transaction builds for a transaction;
\* <<>> for a transaction type it rejects
DepositLines(transaction_type, amount) ==
    LET acc_bank == AccountIdByCode("1102")
        acc_deposit_held == AccountIdByCode("2302")
        acc_deposit_forfeit == AccountIdByCode("4301")
        pair(debit_account, credit_account) ==
            <<[account_id |-> debit_account, debit |-> amount, credit |-> 0],
              [account_id |-> credit_account, debit |-> 0, credit |-> amount]>>
    IN  CASE transaction_type = "received" -> pair(acc_bank, acc_deposit_held)
          [] transaction_type = "refund" -> pair(acc_deposit_held, acc_bank)
          [] transaction_type = "deduction" -> pair(acc_deposit_held, acc_deposit_forfeit)
          [] OTHER -> <<>>

RECURSIVE SumAmount(_, _)
\* sum(t.amount for t in transactions if t.transaction_type == type)
SumAmount(transactions, type) ==
    IF transactions = <<>> THEN 0
    ELSE (IF Head(transactions).transaction_type = type
          THEN Head(transactions).amount ELSE 0)
         + SumAmount(Tail(transactions), type)

\* calculate_deposit_status as it would be with deductions > received for 'forfeited'
DepositStatusStrictForfeit(transactions) ==
    LET received == SumAmount(transactions, "received")
        deductions == SumAmount(transactions, "deduction")
        refunded == SumAmount(transactions, "refund")
        balance == received - deductions - refunded
    IN  IF received = 0 THEN "pending"
        ELSE IF balance <= 0
             THEN (IF deductions > received THEN "forfeited" ELSE "refunded")
        ELSE IF refunded > 0 \/ deductions > 0 THEN "partially_refunded"
        ELSE "received"

\* calculate_deposit_status over the deposit_transactions rows the query returns
calculate_deposit_status(transactions) ==
    LET received == SumAmount(transactions, "received")
        deductions == SumAmount(transactions, "deduction")
        refunded == SumAmount(transactions, "refund")
        balance == received - deductions - refunded
    IN  IF received = 0 THEN "pending"
        ELSE IF balance <= 0
             THEN (IF deductions >= received THEN "forfeited" ELSE "refunded")
        ELSE IF refunded > 0 \/ deductions > 0 THEN "partially_refunded"
        ELSE "received"

OfTenancy(transactions, tenancy_id) ==
    SelectSeq(transactions, LAMBDA t : t.tenancy_id = tenancy_id)

-----------------------------------------------------------------------------
(* Trial balance *)

\* FROM accounts a LEFT JOIN journal_lines jl ON jl.account_id = a.id:
\* the journal lines of an account, each named by its entry and its position
AccountLines(account_id) ==
    UNION {{<<id, i>> : i \in {j \in 1..Len(entries[id].lines) :
                                  entries[id].lines[j].account_id = account_id}} :
           id \in DOMAIN entries}

\* LEFT JOIN journal_entries je ON je.id = jl.journal_entry_id
\*     AND je.is_posted = TRUE AND je.entry_date <= :as_of_date
\*     [AND jl.property_id = :property_id]
\* The conditions stand in the ON clause of an outer join: a line whose entry
\* fails them stays in the result, joined to a NULL entry.
JoinedEntry(jl, as_of_date, property_id) ==
    IF /\ entries[jl[1]].is_posted
       /\ entries[jl[1]].entry_date <= as_of_date
       /\ (property_id # NULL => entries[jl[1]].lines[jl[2]].property_id = property_id)
    THEN jl[1]
    ELSE NULL

JoinRows(account_id, as_of_date, property_id) ==
    {[jl |-> jl, je |-> JoinedEntry(jl, as_of_date, property_id)] :
        jl \in AccountLines(account_id)}

RECURSIVE SumColumn(_, _)
\* COALESCE(SUM(jl.<column>), 0) over the joined rows of one account
SumColumn(rows, column) ==
    IF rows = {} THEN 0
    ELSE LET r == CHOOSE x \in rows : TRUE
         IN  entries[r.jl[1]].lines[r.jl[2]][column] + SumColumn(rows \ {r}, column)

RECURSIVE SumTotals(_, _, _)
SumTotals(ids, totals, column) ==
    IF ids = {} THEN 0
    ELSE LET a == CHOOSE x \in ids : TRUE
         IN  totals[a][column] + SumTotals(ids \ {a}, totals, column)

\* get_trial_balance
get_trial_balance(as_of_date, property_id) ==
    LET active == {a \in DOMAIN accounts : accounts[a].is_active}
        totals == [a \in active |->
                     [debit_total |-> SumColumn(JoinRows(a, as_of_date, property_id), "debit"),
                      credit_total |-> SumColumn(JoinRows(a, as_of_date, property_id), "credit")]]
        shown == {a \in active : totals[a].debit_total > 0 \/ totals[a].credit_total > 0}
        total_debits == SumTotals(shown, totals, "debit_total")
        total_credits == SumTotals(shown, totals, "credit_total")
    IN  [as_of_date |-> as_of_date,
         accounts |-> [a \in shown |->
                         [debit_total |-> totals[a].debit_total,
                          credit_total |-> totals[a].credit_total,
                          balance |-> IF accounts[a].account_type \in {"asset", "expense"}
                                      THEN totals[a].debit_total - totals[a].credit_total
                                      ELSE totals[a].credit_total - totals[a].debit_total]],
         total_debits |-> total_debits,
         total_credits |-> total_credits,
         is_balanced |-> (total_debits = total_credits)]

-----------------------------------------------------------------------------
(* Chart of accounts: handlers *)

AccountId(code) == Uuid("account", code)

\* id=uuid4(): an id no row of `accts` has.  An account can only be deleted
\* while nothing references it, so the id is modelled by the code; a row
\* created while another row holds the code gets another id.
FreshAccountId(accts, code) ==
    IF AccountId(code) \in DOMAIN accts THEN Uuid("account*", code) ELSE AccountId(code)

\* create_account as it would be without the query for an account of the same code
CreateAccountWithoutCodeCheck(accts, account_data) ==
    [res |-> "ok",
     accounts |-> accts @@ (FreshAccountId(accts, account_data.code) :>
                     [code |-> account_data.code,
                      account_type |-> account_data.account_type,
                      is_system |-> FALSE,
                      is_active |-> account_data.is_active])]

\* create_account
create_account(accts, account_data) ==
    IF \E id \in DOMAIN accts : accts[id].code = account_data.code
    THEN [res |-> "duplicate_code", accounts |-> accts]
    ELSE [res |-> "ok",
          accounts |-> accts @@ (FreshAccountId(accts, account_data.code) :>
                          [code |-> account_data.code,
                           account_type |-> account_data.account_type,
                           is_system |-> FALSE,
                           is_active |-> account_data.is_active])]

\* The fields an AccountUpdate declares
AccountUpdateFields ==
    {"name", "is_active", "allow_manual_entries", "default_vat_treatment",
     "description", "display_order"}

\* AccountUpdate parsed from a request body and dumped with exclude_unset:
\* the declared fields the body sets; a key it does not declare is ignored
AccountUpdate(body) ==
    [field \in DOMAIN body \cap AccountUpdateFields |-> body[field]]

\* update_account: setattr for every field of the AccountUpdate that is set
update_account(accts, account_id, update_dict) ==
    IF account_id \notin DOMAIN accts
    THEN [res |-> "not_found", accounts |-> accts]
    ELSE [res |-> "ok",
          accounts |-> [accts EXCEPT ![account_id] =
                          [field \in DOMAIN accts[account_id] |->
                              IF field \in DOMAIN update_dict THEN update_dict[field]
                              ELSE accts[account_id][field]]]]

\* delete_account as it would be without the count of the account's journal lines
DeleteAccountWithoutLinesCheck(accts, account_id) ==
    IF account_id \notin DOMAIN accts
    THEN [res |-> "not_found", accounts |-> accts]
    ELSE IF accts[account_id].is_system
    THEN [res |-> "system_account", accounts |-> accts]
    ELSE [res |-> "ok", accounts |-> [id \in DOMAIN accts \ {account_id} |-> accts[id]]]

\* delete_account
delete_account(accts, account_id) ==
    IF account_id \notin DOMAIN accts
    THEN [res |-> "not_found", accounts |-> accts]
    ELSE IF accts[account_id].is_system
    THEN [res |-> "system_account", accounts |-> accts]
    ELSE IF Cardinality(AccountLines(account_id)) > 0
    THEN [res |-> "in_use", accounts |-> accts]
    ELSE [res |-> "ok", accounts |-> [id \in DOMAIN accts \ {account_id} |-> accts[id]]]

-----------------------------------------------------------------------------
(* Bookings, expenses and deposits: handlers *)

\* The ids a journal line's foreign keys may reference
Rows(bks, exps) == Properties \cup DOMAIN bks \cup DOMAIN exps \cup DOMAIN tenancies

\* The bookings row INSERTed by create_booking; money columns are Numeric(10, 2)
BookingRow(booking_data) ==
    LET nights == booking_data.check_out - booking_data.check_in
    IN  [property_id |-> booking_data.property_id,
         check_in |-> booking_data.check_in,
         check_out |-> booking_data.check_out,
         nightly_rate |-> StoreNumeric(booking_data.nightly_rate),
         subtotal_accommodation |->
             IF booking_data.subtotal_accommodation = 0
             THEN StoreNumeric(booking_data.nightly_rate * nights)
             ELSE StoreNumeric(booking_data.subtotal_accommodation),
         cleaning_fee |-> StoreNumeric(booking_data.cleaning_fee),
         discount_amount |-> StoreNumeric(booking_data.discount_amount),
         platform_commission |-> StoreNumeric(booking_data.platform_commission),
         is_paid |-> booking_data.is_paid,
         is_locked |-> FALSE]

\* create_booking as it would be with the booking rule called outside try/except
CreateBookingRuleUncaught(ents, nid, bks, bid, booking_data) ==
    IF booking_data.property_id \notin Properties
    THEN [res |-> "not_found", rule |-> "none", bookings |-> bks, entries |-> ents]
    ELSE IF booking_data.check_out <= booking_data.check_in
    THEN [res |-> "bad_dates", rule |-> "none", bookings |-> bks, entries |-> ents]
    ELSE LET inserted == bks @@ (BookingId(bid) :> BookingRow(booking_data))
             journal == generate_booking_journal(ents, nid, inserted, BookingId(bid),
                                                 Rows(inserted, expenses))
         IN  [res |-> journal.res, rule |-> journal.res, bookings |-> inserted,
              entries |-> journal.entries]

\* create_booking with BookingId(bid) as the fresh uuid4(): the booking is
\* committed, then the booking rule runs inside try/except
create_booking(ents, nid, bks, bid, booking_data) ==
    IF booking_data.property_id \notin Properties
    THEN [res |-> "not_found", rule |-> "none", bookings |-> bks, entries |-> ents]
    ELSE IF booking_data.check_out <= booking_data.check_in
    THEN [res |-> "bad_dates", rule |-> "none", bookings |-> bks, entries |-> ents]
    ELSE LET inserted == bks @@ (BookingId(bid) :> BookingRow(booking_data))
             journal == generate_booking_journal(ents, nid, inserted, BookingId(bid),
                                                 Rows(inserted, expenses))
         IN  [res |-> "ok", rule |-> journal.res, bookings |-> inserted,
              entries |-> journal.entries]

financial_fields ==
    {"nightly_rate", "subtotal_accommodation", "cleaning_fee", "extra_guest_fee",
     "other_fees", "discount_amount", "platform_commission", "check_in", "check_out"}

NumericFields ==
    {"nightly_rate", "subtotal_accommodation", "cleaning_fee", "discount_amount",
     "platform_commission"}

\* The DELETE of update_booking as it would be without AND is_posted = FALSE
DeleteBookingJournal(ents, booking_id) ==
    Without(ents, {id \in DOMAIN ents :
                      /\ ents[id].source = "booking"
                      /\ ents[id].source_id = booking_id})

\* DELETE FROM journal_entries WHERE source = 'booking' AND source_id = :id
\*     AND is_posted = FALSE
DeleteUnpostedBookingJournal(ents, booking_id) ==
    Without(ents, {id \in DOMAIN ents :
                      /\ ents[id].source = "booking"
                      /\ ents[id].source_id = booking_id
                      /\ ~ents[id].is_posted})

\* update_booking: the UPDATE is committed, then the unposted journal is
\* deleted (and that committed) and the booking rule runs, inside try/except
update_booking(ents, nid, bks, booking_id, update_data) ==
    IF booking_id \notin DOMAIN bks
    THEN [res |-> "not_found", rule |-> "none", bookings |-> bks, entries |-> ents]
    ELSE IF bks[booking_id].is_locked
    THEN [res |-> "locked", rule |-> "none", bookings |-> bks, entries |-> ents]
    ELSE LET financial_changed == DOMAIN update_data \cap financial_fields # {}
             updated == [bks EXCEPT ![booking_id] =
                            [field \in DOMAIN bks[booking_id] |->
                                IF field \in DOMAIN update_data
                                THEN (IF field \in NumericFields
                                      THEN StoreNumeric(update_data[field])
                                      ELSE update_data[field])
                                ELSE bks[booking_id][field]]]
             journal == generate_booking_journal(
                            DeleteUnpostedBookingJournal(ents, booking_id), nid,
                            updated, booking_id, Rows(updated, expenses))
         IN  IF financial_changed
             THEN [res |-> "ok", rule |-> journal.res, bookings |-> updated,
                   entries |-> journal.entries]
             ELSE [res |-> "ok", rule |-> "none", bookings |-> updated, entries |-> ents]

\* The expenses row INSERTed by create_expense; money columns are Numeric(10, 2)
ExpenseRow(expense_data) ==
    [property_id |-> expense_data.property_id,
     expense_date |-> expense_data.expense_date,
     amount |-> StoreNumeric(expense_data.amount),
     vat_amount |-> StoreNumeric(expense_data.vat_amount)]

\* create_expense with ExpenseId(xid) as the fresh uuid4(): the expense is
\* committed, then the expense rule runs inside try/except
create_expense(ents, nid, exps, xid, expense_data) ==
    IF expense_data.property_id \notin Properties
    THEN [res |-> "not_found", rule |-> "none", expenses |-> exps, entries |-> ents]
    ELSE LET inserted == exps @@ (ExpenseId(xid) :> ExpenseRow(expense_data))
             journal == generate_expense_journal(ents, nid, inserted, ExpenseId(xid),
                                                 Rows(bookings, inserted))
         IN  [res |-> "ok", rule |-> journal.res, expenses |-> inserted,
              entries |-> journal.entries]

\* DELETE FROM journal_lines WHERE expense_id = :expense_id
DeleteExpenseLines(ents, expense_id) ==
    [id \in DOMAIN ents |->
        [ents[id] EXCEPT !.lines =
            SelectSeq(ents[id].lines, LAMBDA l : l.expense_id # expense_id)]]

\* delete_expense
delete_expense(ents, exps, expense_id) ==
    IF expense_id \notin DOMAIN exps
    THEN [res |-> "not_found", expenses |-> exps, entries |-> ents]
    ELSE [res |-> "ok",
          expenses |-> [id \in DOMAIN exps \ {expense_id} |-> exps[id]],
          entries |-> DeleteExpenseLines(ents, expense_id)]

\* create_deposit_transaction with EntryId(nid) as the fresh id of the journal
\* entry.  The session does not autoflush: the query of
\* calculate_deposit_status sees the rows flushed before it, `txns`.
create_deposit_transaction(ents, nid, txns, transaction) ==
    LET tenancy_id == transaction.tenancy_id
        unchanged(res) == [res |-> res, entries |-> ents, deposit_transactions |-> txns,
                           tenancies |-> tenancies]
        journal_lines == DepositLines(transaction.transaction_type, transaction.amount)
        journal_entry ==
            JournalEntry(generate_journal_number(ents), transaction.transaction_date,
                         "adjustment", tenancy_id, TRUE, NULL,
                         [i \in 1..Len(journal_lines) |->
                             JournalLine(LineData(journal_lines[i].account_id,
                                                  journal_lines[i].debit,
                                                  journal_lines[i].credit,
                                                  tenancies[tenancy_id].property_id,
                                                  NULL, NULL, tenancy_id), i - 1)])
        db_transaction ==
            [tenancy_id |-> tenancy_id,
             transaction_type |-> transaction.transaction_type,
             amount |-> StoreNumeric(transaction.amount),
             transaction_date |-> transaction.transaction_date,
             journal_entry_id |-> EntryId(nid)]
    IN  IF tenancy_id \notin DOMAIN tenancies THEN unchanged("not_found")
        ELSE IF \E code \in {"1102", "2302", "4301"} : AccountIdByCode(code) = NULL
             THEN unchanged("account_not_found")
        ELSE IF transaction.transaction_type \notin {"received", "refund", "deduction"}
             THEN unchanged("invalid_type")
        ELSE [res |-> "ok",
              entries |-> ents @@ (EntryId(nid) :> journal_entry),
              deposit_transactions |-> Append(txns, db_transaction),
              tenancies |-> [tenancies EXCEPT ![tenancy_id].deposit_status =
                                calculate_deposit_status(OfTenancy(txns, tenancy_id))]]

-----------------------------------------------------------------------------
(* Requests: the inputs the handlers are driven with *)

NoRows == [id \in {} |-> NULL]

Bank == AccountId("1102")
Revenue == AccountId("4101")
OperatingExpense == AccountId("5100")
UnknownAccount == AccountId("0000")

ManualLine(account_id, debit, credit, property_id) ==
    LineData(account_id, debit, credit, property_id, NULL, NULL, NULL)

\* Line lists of manual entries: balanced (tagged with one property, with two,
\* with an expense on one line), balanced only before the amounts are stored,
\* unbalanced, too short, and naming an account that does not exist
ManualLineLists ==
    {<<ManualLine(Bank, Money(2, 0), 0, P1), ManualLine(Revenue, 0, Money(2, 0), P1)>>,
     <<ManualLine(Bank, Money(1, 0), 0, P2), ManualLine(Revenue, 0, Money(1, 0), NULL)>>,
     <<LineData(OperatingExpense, Money(3, 0), 0, P1, NULL, ExpenseId(1), NULL),
       ManualLine(Bank, 0, Money(3, 0), P1)>>,
     <<ManualLine(Bank, HalfCent, 0, NULL), ManualLine(Bank, HalfCent, 0, NULL),
       ManualLine(Revenue, 0, Money(0, 1), NULL)>>,
     <<ManualLine(Bank, Money(2, 0), 0, P1), ManualLine(Revenue, 0, Money(1, 0), P1)>>,
     <<>>,
     <<ManualLine(Bank, Money(1, 0), Money(1, 0), NULL)>>,
     <<ManualLine(Bank, Money(1, 0), 0, NULL), ManualLine(UnknownAccount, 0, Money(1, 0), NULL)>>}

ManualEntries ==
    {EntryData(1, "manual", NULL, lines) : lines \in ManualLineLists}
    \cup {EntryData(MaxDay, "manual", NULL,
                    <<ManualLine(Bank, Money(2, 0), 0, P1),
                      ManualLine(Revenue, 0, Money(2, 0), P1)>>)}
    \cup {EntryData(1, "booking", BookingId(1),
                    <<ManualLine(Bank, Money(2, 0), 0, P1),
                      ManualLine(Revenue, 0, Money(2, 0), P1)>>)}

BookingData(nightly_rate, check_out, cleaning_fee, discount_amount, platform_commission) ==
    [property_id |-> P1, check_in |-> 1, check_out |-> check_out,
     nightly_rate |-> nightly_rate, subtotal_accommodation |-> 0,
     cleaning_fee |-> cleaning_fee, discount_amount |-> discount_amount,
     platform_commission |-> platform_commission, is_paid |-> FALSE]

\* gross 1000 / commission 150 / cleaning 100; no fees at all; a discount that
\* exceeds the accommodation subtotal; check-out not after check-in
BookingInputs ==
    {BookingData(Money(900, 0), 2, Money(100, 0), 0, Money(150, 0)),
     BookingData(Money(100, 0), 2, 0, 0, 0),
     BookingData(Money(50, 0), 2, Money(100, 0), Money(80, 0), 0),
     BookingData(Money(100, 0), 1, 0, 0, 0)}

BookingUpdates ==
    {[field \in {"cleaning_fee"} |-> Money(50, 0)],
     [field \in {"platform_commission"} |-> Money(20, 0)],
     [field \in {"is_paid"} |-> TRUE]}

ExpenseInputs ==
    {[property_id |-> P1, expense_date |-> 1, amount |-> Money(200, 0),
      vat_amount |-> Money(10, 0)],
     [property_id |-> P2, expense_date |-> MaxDay, amount |-> HalfCent,
      vat_amount |-> 0]}

DepositInput(transaction_type, amount) ==
    [tenancy_id |-> TenancyId(1), transaction_type |-> transaction_type,
     amount |-> amount, transaction_date |-> 1]

DepositInputs ==
    {DepositInput("received", Money(2000, 0)), DepositInput("refund", Money(2000, 0)),
     DepositInput("refund", Money(500, 0)), DepositInput("deduction", Money(500, 0)),
     DepositInput("transfer", Money(500, 0))}

\* The accounts the chart-of-accounts requests name
ManagedCodes == {"1102", "2100", "5101"}

AccountInputs ==
    {[code |-> code, account_type |-> AccountType(code), is_active |-> TRUE] :
        code \in ManagedCodes}

\* Request bodies of update_account: is_active set, and a body that names a code
AccountUpdates ==
    {[field \in {"is_active"} |-> active] : active \in BOOLEAN}
    \cup {[code |-> "1201", is_active |-> FALSE]}

EntryIds == DOMAIN entries \cup {EntryId(0)}

-----------------------------------------------------------------------------
(* The system: every request is one transaction *)

Init ==
    /\ accounts = SeededAccounts
    /\ entries = NoRows
    /\ minted = [entry |-> 0, booking |-> 0, expense |-> 0]
    /\ today = 1
    /\ bookings = NoRows
    /\ expenses = NoRows
    /\ tenancies = (TenancyId(1) :> [property_id |-> P1, deposit_status |-> "pending"])
    /\ deposit_transactions = <<>>
    /\ last = [op |-> "none", id |-> NULL, rule |-> "none"]
    /\ ops = 0
    /\ issued = <<>>
    /\ requests = <<>>

\* The entry numbers of the rows of `ents` that `entries` does not hold, in the
\* order the rows were created
NewNumbers(ents) ==
    [k \in 1..Cardinality(DOMAIN ents \ DOMAIN entries) |->
        ents[EntryId(minted.entry + k)].entry_number]

\* A request that committed; every table has its new value
Committed(op, id, rule) ==
    /\ ops < MaxOps
    /\ ops' = ops + 1
    /\ last' = [op |-> op, id |-> id, rule |-> rule]
    /\ minted' = [entry |-> minted.entry + Cardinality(DOMAIN entries' \ DOMAIN entries),
                  booking |-> minted.booking + Cardinality(DOMAIN bookings' \ DOMAIN bookings),
                  expense |-> minted.expense + Cardinality(DOMAIN expenses' \ DOMAIN expenses)]
    /\ issued' = issued \o NewNumbers(entries')
    /\ UNCHANGED <<today, requests>>

\* A request that failed: nothing was committed, the session is closed
Rejected == UNCHANGED vars

CreateAccount ==
    \E account_data \in AccountInputs :
        LET r == create_account(accounts, account_data)
        IN  IF r.res = "ok"
            THEN /\ accounts' = r.accounts
                 /\ UNCHANGED <<entries, bookings, expenses, tenancies, deposit_transactions>>
                 /\ Committed("create_account",
                              FreshAccountId(accounts, account_data.code), "none")
            ELSE Rejected

UpdateAccount ==
    \E code \in ManagedCodes, update_dict \in AccountUpdates :
        LET r == update_account(accounts, AccountId(code), AccountUpdate(update_dict))
        IN  IF r.res = "ok"
            THEN /\ accounts' = r.accounts
                 /\ UNCHANGED <<entries, bookings, expenses, tenancies, deposit_transactions>>
                 /\ Committed("update_account", AccountId(code), "none")
            ELSE Rejected

DeleteAccount ==
    \E code \in ManagedCodes :
        LET r == delete_account(accounts, AccountId(code))
        IN  IF r.res = "ok"
            THEN /\ accounts' = r.accounts
                 /\ UNCHANGED <<entries, bookings, expenses, tenancies, deposit_transactions>>
                 /\ Committed("delete_account", AccountId(code), "none")
            ELSE Rejected

CreateJournalEntry ==
    \E entry_data \in ManualEntries :
        LET r == create_journal_entry(entries, minted.entry + 1, entry_data,
                                      Rows(bookings, expenses))
        IN  IF r.res = "ok"
            THEN /\ entries' = r.entries
                 /\ UNCHANGED <<accounts, bookings, expenses, tenancies, deposit_transactions>>
                 /\ Committed("create_journal_entry", r.id, "none")
            ELSE Rejected

PostJournalEntry ==
    \E journal_id \in EntryIds :
        LET r == post_journal_entry(entries, journal_id)
        IN  IF r.res = "ok"
            THEN /\ entries' = r.entries
                 /\ UNCHANGED <<accounts, bookings, expenses, tenancies, deposit_transactions>>
                 /\ Committed("post_journal_entry", journal_id, "none")
            ELSE Rejected

ReverseJournalEntry ==
    \E journal_id \in EntryIds :
        \E loaded \in (IF journal_id \in DOMAIN entries
                       THEN LoadOrders(entries[journal_id].lines) ELSE {<<>>}) :
            LET r == reverse_journal_entry(entries, minted.entry + 1, journal_id, loaded)
            IN  IF r.res = "ok"
                THEN /\ entries' = r.entries
                     /\ UNCHANGED <<accounts, bookings, expenses, tenancies,
                                    deposit_transactions>>
                     /\ Committed("reverse_journal_entry", journal_id, "none")
                ELSE Rejected

DeleteJournalEntry ==
    \E journal_id \in EntryIds :
        LET r == delete_journal_entry(entries, journal_id)
        IN  IF r.res = "ok"
            THEN /\ entries' = r.entries
                 /\ UNCHANGED <<accounts, bookings, expenses, tenancies, deposit_transactions>>
                 /\ Committed("delete_journal_entry", journal_id, "none")
            ELSE Rejected

GenerateBookingJournal ==
    \E booking_id \in DOMAIN bookings \cup {BookingId(0)} :
        LET r == generate_booking_journal(entries, minted.entry + 1, bookings, booking_id,
                                          Rows(bookings, expenses))
        IN  IF r.res = "ok"
            THEN /\ entries' = r.entries
                 /\ UNCHANGED <<accounts, bookings, expenses, tenancies, deposit_transactions>>
                 /\ Committed("generate_booking_journal", booking_id, "ok")
            ELSE Rejected

GenerateExpenseJournal ==
    \E expense_id \in DOMAIN expenses \cup {ExpenseId(0)} :
        LET r == generate_expense_journal(entries, minted.entry + 1, expenses, expense_id,
                                          Rows(bookings, expenses))
        IN  IF r.res = "ok"
            THEN /\ entries' = r.entries
                 /\ UNCHANGED <<accounts, bookings, expenses, tenancies, deposit_transactions>>
                 /\ Committed("generate_expense_journal", expense_id, "ok")
            ELSE Rejected

CreateBooking ==
    \E booking_data \in BookingInputs :
        LET r == create_booking(entries, minted.entry + 1, bookings,
                                minted.booking + 1, booking_data)
        IN  IF r.res = "ok"
            THEN /\ bookings' = r.bookings
                 /\ entries' = r.entries
                 /\ UNCHANGED <<accounts, expenses, tenancies, deposit_transactions>>
                 /\ Committed("create_booking", BookingId(minted.booking + 1), r.rule)
            ELSE Rejected

UpdateBooking ==
    \E booking_id \in DOMAIN bookings \cup {BookingId(0)}, update_data \in BookingUpdates :
        LET r == update_booking(entries, minted.entry + 1, bookings, booking_id, update_data)
        IN  IF r.res = "ok"
            THEN /\ bookings' = r.bookings
                 /\ entries' = r.entries
                 /\ UNCHANGED <<accounts, expenses, tenancies, deposit_transactions>>
                 /\ Committed("update_booking", booking_id, r.rule)
            ELSE Rejected

CreateExpense ==
    \E expense_data \in ExpenseInputs :
        LET r == create_expense(entries, minted.entry + 1, expenses,
                                minted.expense + 1, expense_data)
        IN  IF r.res = "ok"
            THEN /\ expenses' = r.expenses
                 /\ entries' = r.entries
                 /\ UNCHANGED <<accounts, bookings, tenancies, deposit_transactions>>
                 /\ Committed("create_expense", ExpenseId(minted.expense + 1), r.rule)
            ELSE Rejected

DeleteExpense ==
    \E expense_id \in DOMAIN expenses \cup {ExpenseId(0)} :
        LET r == delete_expense(entries, expenses, expense_id)
        IN  IF r.res = "ok"
            THEN /\ expenses' = r.expenses
                 /\ entries' = r.entries
                 /\ UNCHANGED <<accounts, bookings, tenancies, deposit_transactions>>
                 /\ Committed("delete_expense", expense_id, "none")
            ELSE Rejected

CreateDepositTransaction ==
    \E transaction \in DepositInputs :
        LET r == create_deposit_transaction(entries, minted.entry + 1,
                                            deposit_transactions, transaction)
        IN  IF r.res = "ok"
            THEN /\ entries' = r.entries
                 /\ deposit_transactions' = r.deposit_transactions
                 /\ tenancies' = r.tenancies
                 /\ UNCHANGED <<accounts, bookings, expenses>>
                 /\ Committed("create_deposit_transaction", transaction.tenancy_id, "ok")
            ELSE Rejected

\* Midnight passes
AdvanceClock ==
    /\ today < MaxDay
    /\ today' = today + 1
    /\ UNCHANGED <<accounts, entries, minted, bookings, expenses, tenancies,
                   deposit_transactions, last, ops, issued, requests>>

Next ==
    \/ CreateAccount
    \/ UpdateAccount
    \/ DeleteAccount
    \/ CreateJournalEntry
    \/ PostJournalEntry
    \/ ReverseJournalEntry
    \/ DeleteJournalEntry
    \/ GenerateBookingJournal
    \/ GenerateExpenseJournal
    \/ CreateBooking
    \/ UpdateBooking
    \/ CreateExpense
    \/ DeleteExpense
    \/ CreateDepositTransaction
    \/ AdvanceClock

Spec == Init /\ [][Next]_vars


-----------------------------------------------------------------------------
(* Concurrent creation: create_journal_entry requests of separate sessions,
   interleaved.  A session reads the committed rows (READ COMMITTED); its INSERT
   is checked against the unique constraint on entry_number. *)

Requests == 1..MaxRequests

Idle == [pc |-> "idle"]

\* The entries the concurrent requests ask for: balanced, two lines, known accounts
ConcurrentEntries ==
    {EntryData(1, "manual", NULL,
               <<ManualLine(Bank, Money(u, 0), 0, P1),
                 ManualLine(Revenue, 0, Money(u, 0), P1)>>) : u \in {1, 2}}

InitConcurrent ==
    /\ accounts = SeededAccounts
    /\ entries = NoRows
    /\ minted = [entry |-> 0, booking |-> 0, expense |-> 0]
    /\ today = 1
    /\ bookings = NoRows
    /\ expenses = NoRows
    /\ tenancies = (TenancyId(1) :> [property_id |-> P1, deposit_status |-> "pending"])
    /\ deposit_transactions = <<>>
    /\ last = [op |-> "none", id |-> NULL, rule |-> "none"]
    /\ ops = 0
    /\ issued = <<>>
    /\ requests = [r \in Requests |-> Idle]

\* The rows a session has INSERTed and not yet committed
InFlight(r) == requests[r].pc = "flushed"

\* create_journal_entry up to generate_journal_number: the request is validated
\* and the next number is read from the committed rows
BeginCreate(r) ==
    /\ requests[r].pc = "idle"
    /\ \E entry_data \in ConcurrentEntries :
           /\ validate_journal_balance(entry_data.lines)
           /\ Len(entry_data.lines) >= 2
           /\ requests' = [requests EXCEPT ![r] =
                  [pc |-> "numbered", entry_data |-> entry_data,
                   entry_number |-> generate_journal_number(entries)]]
    /\ UNCHANGED <<accounts, entries, minted, today, bookings, expenses, tenancies,
                   deposit_transactions, last, ops, issued>>

\* db.add(entry); db.flush(): the INSERT of the header.  It waits while another
\* session holds an uncommitted row with the same entry_number, and raises
\* IntegrityError when a committed row has that entry_number.
FlushEntry(r) ==
    /\ requests[r].pc = "numbered"
    /\ ~\E q \in Requests \ {r} :
           InFlight(q) /\ requests[q].entry_number = requests[r].entry_number
    /\ IF \E id \in DOMAIN entries :
              entries[id].entry_number = requests[r].entry_number
       THEN /\ requests' = [requests EXCEPT ![r] = [pc |-> "failed"]]
            /\ UNCHANGED minted
       ELSE /\ requests' = [requests EXCEPT ![r] =
                   [pc |-> "flushed", entry_data |-> requests[r].entry_data,
                    entry_number |-> requests[r].entry_number,
                    id |-> EntryId(minted.entry + 1)]]
            /\ minted' = [minted EXCEPT !.entry = minted.entry + 1]
    /\ UNCHANGED <<accounts, entries, today, bookings, expenses, tenancies,
                   deposit_transactions, last, ops, issued>>

\* The lines are added and the transaction commits
CommitEntry(r) ==
    /\ requests[r].pc = "flushed"
    /\ LET lines == requests[r].entry_data.lines
           entry == JournalEntry(requests[r].entry_number,
                                 requests[r].entry_data.entry_date,
                                 requests[r].entry_data.source,
                                 requests[r].entry_data.source_id, FALSE, NULL,
                                 [i \in 1..Len(lines) |-> JournalLine(lines[i], i - 1)])
       IN  /\ entries' = entries @@ (requests[r].id :> entry)
           /\ issued' = Append(issued, requests[r].entry_number)
    /\ requests' = [requests EXCEPT ![r] = [pc |-> "done"]]
    /\ UNCHANGED <<accounts, minted, today, bookings, expenses, tenancies,
                   deposit_transactions, last, ops>>

NextConcurrent ==
    \E r \in Requests : BeginCreate(r) \/ FlushEntry(r) \/ CommitEntry(r)

SpecConcurrent == InitConcurrent /\ [][NextConcurrent]_vars


-----------------------------------------------------------------------------
(* Concurrent reversal: reverse_journal_entry requests of separate sessions on
   a ledger of two posted entries, interleaved.  A session reads the committed
   rows; the checks of the original, the read of the next entry number, the
   INSERT of the header and the commit are separate steps. *)

PostedEntryData(u) ==
    EntryData(1, "manual", NULL,
              <<ManualLine(Bank, Money(u, 0), 0, P1), ManualLine(Revenue, 0, Money(u, 0), P1)>>)

\* The ledger after two create_journal_entry requests and the posting of both
PostedLedger ==
    LET first == create_journal_entry(NoRows, 1, PostedEntryData(1), Properties)
        second == create_journal_entry(first.entries, 2, PostedEntryData(2), Properties)
    IN  post_journal_entry(post_journal_entry(second.entries, EntryId(1)).entries,
                           EntryId(2)).entries

InitConcurrentReverse ==
    /\ accounts = SeededAccounts
    /\ today = 1
    /\ entries = PostedLedger
    /\ minted = [entry |-> 2, booking |-> 0, expense |-> 0]
    /\ bookings = NoRows
    /\ expenses = NoRows
    /\ tenancies = (TenancyId(1) :> [property_id |-> P1, deposit_status |-> "pending"])
    /\ deposit_transactions = <<>>
    /\ last = [op |-> "post_journal_entry", id |-> EntryId(2), rule |-> "none"]
    /\ ops = 0
    /\ issued = <<PostedLedger[EntryId(1)].entry_number, PostedLedger[EntryId(2)].entry_number>>
    /\ requests = [r \in Requests |-> Idle]

\* reverse_journal_entry up to its checks: the original is read from the
\* committed rows and must be posted and not reversed
BeginReverse(r) ==
    /\ requests[r].pc = "idle"
    /\ \E journal_id \in {EntryId(1), EntryId(2)} :
           requests' = [requests EXCEPT ![r] =
               IF journal_id \notin DOMAIN entries
                  \/ ~entries[journal_id].is_posted
                  \/ entries[journal_id].is_reversed
               THEN [pc |-> "failed"]
               ELSE [pc |-> "checked", journal_id |-> journal_id]]
    /\ UNCHANGED <<accounts, entries, minted, today, bookings, expenses, tenancies,
                   deposit_transactions, last, ops, issued>>

\* generate_journal_number: the next number is read from the committed rows
NumberReversal(r) ==
    /\ requests[r].pc = "checked"
    /\ requests' = [requests EXCEPT ![r] =
           [pc |-> "numbered", journal_id |-> requests[r].journal_id,
            entry_number |-> generate_journal_number(entries)]]
    /\ UNCHANGED <<accounts, entries, minted, today, bookings, expenses, tenancies,
                   deposit_transactions, last, ops, issued>>

\* db.add(reversal); db.flush(): the INSERT of the header waits while another
\* session holds an uncommitted row with the same entry_number, and raises
\* IntegrityError when a committed row has that entry_number
FlushReversal(r) ==
    /\ requests[r].pc = "numbered"
    /\ ~\E q \in Requests \ {r} :
           InFlight(q) /\ requests[q].entry_number = requests[r].entry_number
    /\ IF \E id \in DOMAIN entries :
              entries[id].entry_number = requests[r].entry_number
       THEN /\ requests' = [requests EXCEPT ![r] = [pc |-> "failed"]]
            /\ UNCHANGED minted
       ELSE /\ requests' = [requests EXCEPT ![r] =
                   [pc |-> "flushed", journal_id |-> requests[r].journal_id,
                    entry_number |-> requests[r].entry_number,
                    id |-> EntryId(minted.entry + 1)]]
            /\ minted' = [minted EXCEPT !.entry = minted.entry + 1]
    /\ UNCHANGED <<accounts, entries, today, bookings, expenses, tenancies,
                   deposit_transactions, last, ops, issued>>

\* The reversed lines are added, the original is flagged, and db.commit()
\* writes the lines and the UPDATE of the original and commits
CommitReversal(r) ==
    /\ requests[r].pc = "flushed"
    /\ \E loaded \in LoadOrders(entries[requests[r].journal_id].lines) :
       LET journal_id == requests[r].journal_id
           reversal == JournalEntry(requests[r].entry_number, today, "adjustment",
                                    journal_id, TRUE, Stamp(today),
                                    [i \in 1..Len(loaded) |->
                                        ReversedLine(loaded[i], i - 1)])
       IN  /\ entries' = [entries EXCEPT ![journal_id].is_reversed = TRUE,
                                         ![journal_id].reversed_by_id = requests[r].id]
                         @@ (requests[r].id :> reversal)
           /\ issued' = Append(issued, requests[r].entry_number)
    /\ requests' = [requests EXCEPT ![r] = [pc |-> "done"]]
    /\ UNCHANGED <<accounts, minted, today, bookings, expenses, tenancies,
                   deposit_transactions, last, ops>>

NextConcurrentReverse ==
    \E r \in Requests :
        BeginReverse(r) \/ NumberReversal(r) \/ FlushReversal(r) \/ CommitReversal(r)

SpecConcurrentReverse == InitConcurrentReverse /\ [][NextConcurrentReverse]_vars

-----------------------------------------------------------------------------
(* The booking rule under concurrency: generate_booking_journal invocations of
   separate sessions, interleaved, for two bookings whose rows are committed
   and whose entries are not yet written (create_booking commits the booking
   before it calls the rule).  The existence check, the read of the next entry
   number, the INSERT of the header and the commit are separate steps. *)

CommittedBookings ==
    (BookingId(1) :> BookingRow(BookingData(Money(900, 0), 2, Money(100, 0), 0,
                                            Money(150, 0))))
    @@ (BookingId(2) :> BookingRow(BookingData(Money(100, 0), 2, 0, 0, 0)))

InitConcurrentBooking ==
    /\ accounts = SeededAccounts
    /\ today = 1
    /\ entries = NoRows
    /\ minted = [entry |-> 0, booking |-> 2, expense |-> 0]
    /\ bookings = CommittedBookings
    /\ expenses = NoRows
    /\ tenancies = (TenancyId(1) :> [property_id |-> P1, deposit_status |-> "pending"])
    /\ deposit_transactions = <<>>
    /\ last = [op |-> "none", id |-> NULL, rule |-> "none"]
    /\ ops = 0
    /\ issued = <<>>
    /\ requests = [r \in Requests |-> Idle]

\* generate_booking_journal up to the call of create_journal_entry: the booking
\* is read, the existence of an entry is checked on the committed rows, the
\* accounts are looked up and the lines are derived
BeginGenerate(r) ==
    /\ requests[r].pc = "idle"
    /\ \E booking_id \in DOMAIN bookings :
           requests' = [requests EXCEPT ![r] =
               IF \/ JournalExists(entries, "booking", booking_id)
                  \/ \E code \in {"1201", "4101", "4102", "5101"} :
                         AccountIdByCode(code) = NULL
               THEN [pc |-> "failed"]
               ELSE [pc |-> "checked", booking_id |-> booking_id,
                     lines |-> BookingLines(booking_id, bookings[booking_id])]]
    /\ UNCHANGED <<accounts, entries, minted, today, bookings, expenses, tenancies,
                   deposit_transactions, last, ops, issued>>

\* create_journal_entry up to generate_journal_number: the lines are validated
\* and the next number is read from the committed rows
NumberJournal(r) ==
    /\ requests[r].pc = "checked"
    /\ requests' = [requests EXCEPT ![r] =
           IF ~validate_journal_balance(requests[r].lines) \/ Len(requests[r].lines) < 2
           THEN [pc |-> "failed"]
           ELSE [pc |-> "numbered", booking_id |-> requests[r].booking_id,
                 lines |-> requests[r].lines,
                 entry_number |-> generate_journal_number(entries)]]
    /\ UNCHANGED <<accounts, entries, minted, today, bookings, expenses, tenancies,
                   deposit_transactions, last, ops, issued>>

\* db.add(entry); db.flush(): waits on an uncommitted row with the same
\* entry_number, raises IntegrityError on a committed one
FlushJournal(r) ==
    /\ requests[r].pc = "numbered"
    /\ ~\E q \in Requests \ {r} :
           InFlight(q) /\ requests[q].entry_number = requests[r].entry_number
    /\ IF \E id \in DOMAIN entries :
              entries[id].entry_number = requests[r].entry_number
       THEN /\ requests' = [requests EXCEPT ![r] = [pc |-> "failed"]]
            /\ UNCHANGED minted
       ELSE /\ requests' = [requests EXCEPT ![r] =
                   [pc |-> "flushed", booking_id |-> requests[r].booking_id,
                    lines |-> requests[r].lines,
                    entry_number |-> requests[r].entry_number,
                    id |-> EntryId(minted.entry + 1)]]
            /\ minted' = [minted EXCEPT !.entry = minted.entry + 1]
    /\ UNCHANGED <<accounts, entries, today, bookings, expenses, tenancies,
                   deposit_transactions, last, ops, issued>>

\* The lines are added and the transaction commits
CommitJournal(r) ==
    /\ requests[r].pc = "flushed"
    /\ LET lines == requests[r].lines
           booking_id == requests[r].booking_id
           entry == JournalEntry(requests[r].entry_number, bookings[booking_id].check_in,
                                 "booking", booking_id, FALSE, NULL,
                                 [i \in 1..Len(lines) |-> JournalLine(lines[i], i - 1)])
       IN  /\ entries' = entries @@ (requests[r].id :> entry)
           /\ issued' = Append(issued, requests[r].entry_number)
    /\ requests' = [requests EXCEPT ![r] = [pc |-> "done"]]
    /\ UNCHANGED <<accounts, minted, today, bookings, expenses, tenancies,
                   deposit_transactions, last, ops>>

NextConcurrentBooking ==
    \E r \in Requests :
        BeginGenerate(r) \/ NumberJournal(r) \/ FlushJournal(r) \/ CommitJournal(r)

SpecConcurrentBooking == InitConcurrentBooking /\ [][NextConcurrentBooking]_vars

-----------------------------------------------------------------------------
(* The ledger of one recorded expense: the state in which create_expense has
   committed the expense and the expense rule has written its journal entry,
   and the requests on expenses and journal entries that follow *)

RecordedExpense ==
    [property_id |-> P1, expense_date |-> 1, amount |-> Money(200, 0),
     vat_amount |-> Money(10, 0)]

InitExpenseLedger ==
    /\ accounts = SeededAccounts
    /\ today = 1
    /\ bookings = NoRows
    /\ tenancies = (TenancyId(1) :> [property_id |-> P1, deposit_status |-> "pending"])
    /\ deposit_transactions = <<>>
    /\ LET r == create_expense(NoRows, 1, NoRows, 1, RecordedExpense)
       IN  /\ expenses = r.expenses
           /\ entries = r.entries
           /\ minted = [entry |-> Cardinality(DOMAIN r.entries), booking |-> 0,
                        expense |-> 1]
           /\ last = [op |-> "create_expense", id |-> ExpenseId(1), rule |-> r.rule]
           /\ issued = [k \in 1..Cardinality(DOMAIN r.entries) |->
                           r.entries[EntryId(k)].entry_number]
    /\ ops = 0
    /\ requests = <<>>

NextExpenseLedger ==
    \/ CreateJournalEntry
    \/ PostJournalEntry
    \/ ReverseJournalEntry
    \/ DeleteJournalEntry
    \/ CreateExpense
    \/ DeleteExpense
    \/ AdvanceClock

SpecExpenseLedger == InitExpenseLedger /\ [][NextExpenseLedger]_vars

-----------------------------------------------------------------------------
(* Properties *)

\* The journal entries that carry the pair (source, source_id)
EntriesOf(ents, source, source_id) ==
    {id \in DOMAIN ents : ents[id].source = source /\ ents[id].source_id = source_id}

\* The persisted lines of an entry as <<account code, debit, credit>> triples
LineTriples(entry) ==
    {<<accounts[entry.lines[i].account_id].code, entry.lines[i].debit,
       entry.lines[i].credit>> : i \in 1..Len(entry.lines)}

\* C1: createEntry persists an entry only if its lines balance exactly: a
\* request whose debits and credits differ fails and persists nothing, and the
\* persisted lines of every entry it creates have sum(debit) = sum(credit).
CreatedEntriesBalance ==
    /\ \A entry_data \in ManualEntries :
           LET r == create_journal_entry(entries, minted.entry + 1, entry_data,
                                         Rows(bookings, expenses))
           IN  SumDebit(entry_data.lines) # SumCredit(entry_data.lines)
                   => r.res = "unbalanced" /\ r.entries = entries
    /\ last.op = "create_journal_entry"
           => SumDebit(entries[last.id].lines) = SumCredit(entries[last.id].lines)

\* C2: reversing a posted, not yet reversed entry e creates an entry e' with as
\* many lines, line i of e' having the account of line i of e and its debit
\* and credit swapped; e' is posted, has source 'adjustment' and source_id e.id;
\* e is flagged reversed, by e'.
ReversalMirrorsLines ==
    last.op = "reverse_journal_entry" =>
        LET e == entries[last.id]
        IN  /\ e.is_reversed
            /\ e.reversed_by_id \in DOMAIN entries
            /\ LET reversal == entries[e.reversed_by_id]
               IN  /\ reversal.is_posted
                   /\ reversal.source = "adjustment"
                   /\ reversal.source_id = last.id
                   /\ Len(reversal.lines) = Len(e.lines)
                   /\ \A i \in 1..Len(e.lines) :
                          /\ reversal.lines[i].account_id = e.lines[i].account_id
                          /\ reversal.lines[i].debit = e.lines[i].credit
                          /\ reversal.lines[i].credit = e.lines[i].debit

\* C3: the booking rule and the expense rule are idempotent per source row: when
\* a call of the rule creates the entry, or finds one, a second call for the same
\* id fails as a duplicate and changes no entry and no line; after a call that
\* created the entry exactly one entry carries the (source, source_id) pair.
AutoPostingIdempotent ==
    /\ \A booking_id \in DOMAIN bookings :
           LET rows == Rows(bookings, expenses)
               first == generate_booking_journal(entries, minted.entry + 1, bookings,
                                                 booking_id, rows)
               second == generate_booking_journal(first.entries, minted.entry + 2,
                                                  bookings, booking_id, rows)
           IN  /\ first.res \in {"ok", "duplicate"}
                      => second.res = "duplicate" /\ second.entries = first.entries
               /\ first.res = "ok"
                      => Cardinality(EntriesOf(second.entries, "booking", booking_id)) = 1
    /\ \A expense_id \in DOMAIN expenses :
           LET rows == Rows(bookings, expenses)
               first == generate_expense_journal(entries, minted.entry + 1, expenses,
                                                 expense_id, rows)
               second == generate_expense_journal(first.entries, minted.entry + 2,
                                                  expenses, expense_id, rows)
           IN  /\ first.res \in {"ok", "duplicate"}
                      => second.res = "duplicate" /\ second.entries = first.entries
               /\ first.res = "ok"
                      => Cardinality(EntriesOf(second.entries, "expense", expense_id)) = 1

\* A call of the booking rule has created the entry of a booking, and the next
\* call for that booking fails as a duplicate
AutoPostingIdempotentWitness ==
    /\ last.op = "generate_booking_journal"
    /\ last.rule = "ok"
    /\ Cardinality(EntriesOf(entries, "booking", last.id)) = 1
    /\ generate_booking_journal(entries, minted.entry + 1, bookings, last.id,
                                Rows(bookings, expenses)).res = "duplicate"

\* C4: within a calendar year the sequence number of a new entry is greater
\* than every sequence number assigned earlier that year, the numbers of
\* entries deleted since included.
EntryNumbersIncrease ==
    \A i, j \in 1..Len(issued) :
        i < j /\ issued[i].prefix = issued[j].prefix
            => SeqOf(issued[i]) < SeqOf(issued[j])

\* C5: interleaved creations of one calendar year all succeed: no request fails
\* on a number collision, and the persisted entries have distinct numbers, one
\* for each request that finished.
ConcurrentCreatesAllSucceed ==
    /\ \A r \in Requests : requests[r].pc # "failed"
    /\ \A id1, id2 \in DOMAIN entries :
           id1 # id2 => entries[id1].entry_number # entries[id2].entry_number
    /\ Cardinality(DOMAIN entries)
           = Cardinality({r \in Requests : requests[r].pc = "done"})

\* C6: for every as-of date the trial balance of a reachable ledger reports
\* total_debits = total_credits: is_balanced is true.
TrialBalanceIsBalanced ==
    \A as_of_date \in Dates : get_trial_balance(as_of_date, NULL).is_balanced

RECURSIVE LineSum(_, _)
\* The sum of a column over a set of journal lines <<entry id, position>>
LineSum(jls, column) ==
    IF jls = {} THEN 0
    ELSE LET jl == CHOOSE x \in jls : TRUE
         IN  entries[jl[1]].lines[jl[2]][column] + LineSum(jls \ {jl}, column)

\* What a trial balance reports for an account: zero when it does not list it
Reported(trial_balance, account_id, column) ==
    IF account_id \in DOMAIN trial_balance.accounts
    THEN trial_balance.accounts[account_id][column]
    ELSE 0

\* The lines of an account in posted entries dated on or before as_of_date
PostedLinesUpTo(account_id, as_of_date) ==
    {jl \in AccountLines(account_id) :
        entries[jl[1]].is_posted /\ entries[jl[1]].entry_date <= as_of_date}

\* C7: trialBalance(asOfDate) sums, for each active account, only the lines of
\* posted entries dated on or before asOfDate: lines of draft entries and of
\* later entries contribute to no total.
TrialBalanceSumsPostedUpToDate ==
    \A as_of_date \in Dates :
        \A a \in {id \in DOMAIN accounts : accounts[id].is_active} :
            LET trial_balance == get_trial_balance(as_of_date, NULL)
                lines == PostedLinesUpTo(a, as_of_date)
            IN  /\ Reported(trial_balance, a, "debit_total") = LineSum(lines, "debit")
                /\ Reported(trial_balance, a, "credit_total") = LineSum(lines, "credit")

\* C8: trialBalance with a propertyId sums, for each account, only the lines
\* tagged with that property: lines of another property or of none contribute
\* nothing.  Stated on ledgers whose entries are all posted and dated on or before
\* the as-of date, where posting and dates exclude no line.
TrialBalanceSumsPropertyLines ==
    \A as_of_date \in Dates, property_id \in Properties :
        (\A id \in DOMAIN entries :
             entries[id].is_posted /\ entries[id].entry_date <= as_of_date)
        => \A a \in {id \in DOMAIN accounts : accounts[id].is_active} :
               LET trial_balance == get_trial_balance(as_of_date, property_id)
                   lines == {jl \in AccountLines(a) :
                                entries[jl[1]].lines[jl[2]].property_id = property_id}
               IN  /\ Reported(trial_balance, a, "debit_total") = LineSum(lines, "debit")
                   /\ Reported(trial_balance, a, "credit_total") = LineSum(lines, "credit")

\* The last request ran the booking rule and the rule created an entry
BookingRulePosted ==
    /\ last.op \in {"create_booking", "update_booking", "generate_booking_journal"}
    /\ last.rule = "ok"

\* C9: for a booking with gross revenue g, commission c and cleaning fee f the
\* booking rule creates an entry dated at check-in, with source 'booking' and
\* source_id the booking id, whose lines are: debit g - c to Receivable (1201);
\* debit c to Commission Expense (5101) iff c > 0; credit g - f to Accommodation
\* Revenue (4101) iff g - f > 0; credit f to Cleaning Revenue (4102) iff f > 0.
\* For g = 1000, c = 150, f = 100: 850, 150, 900, 100, both totals 1000.
BookingRuleLines ==
    BookingRulePosted =>
        /\ Cardinality(EntriesOf(entries, "booking", last.id)) = 1
        /\ LET booking == bookings[last.id]
               entry == entries[CHOOSE id \in EntriesOf(entries, "booking", last.id) : TRUE]
               g == booking.subtotal_accommodation + booking.cleaning_fee
                        - booking.discount_amount
               c == booking.platform_commission
               f == booking.cleaning_fee
           IN  /\ entry.entry_date = booking.check_in
               /\ LineTriples(entry) =
                      {<<"1201", g - c, 0>>}
                      \cup (IF c > 0 THEN {<<"5101", c, 0>>} ELSE {})
                      \cup (IF g - f > 0 THEN {<<"4101", 0, g - f>>} ELSE {})
                      \cup (IF f > 0 THEN {<<"4102", 0, f>>} ELSE {})
               /\ Len(entry.lines) = 1 + (IF c > 0 THEN 1 ELSE 0)
                                       + (IF g - f > 0 THEN 1 ELSE 0)
                                       + (IF f > 0 THEN 1 ELSE 0)
               /\ (g = Money(1000, 0) /\ c = Money(150, 0) /\ f = Money(100, 0))
                      => /\ SumDebit(entry.lines) = Money(1000, 0)
                         /\ SumCredit(entry.lines) = Money(1000, 0)

\* The rule has posted the booking with gross revenue 1000, commission 150 and
\* cleaning fee 100 as 850, 150, 900 and 100
BookingRuleLinesWitness ==
    /\ BookingRulePosted
    /\ gross_revenue(bookings[last.id]) = Money(1000, 0)
    /\ \E id \in EntriesOf(entries, "booking", last.id) :
           LineTriples(entries[id]) =
               {<<"1201", Money(850, 0), 0>>, <<"5101", Money(150, 0), 0>>,
                <<"4101", 0, Money(900, 0)>>, <<"4102", 0, Money(100, 0)>>}

\* The last request ran the expense rule and the rule created an entry
ExpenseRulePosted ==
    /\ last.op \in {"create_expense", "generate_expense_journal"}
    /\ last.rule = "ok"

\* C10: for an expense with amount a and VAT v the expense rule creates an entry
\* dated at the expense date, with source 'expense' and source_id the expense
\* id, of exactly two lines: debit a + v to Operating Expense (5100) and credit
\* a + v to Accounts Payable (2100).  For a = 200, v = 10 both are 210.
ExpenseRuleLines ==
    ExpenseRulePosted =>
        /\ Cardinality(EntriesOf(entries, "expense", last.id)) = 1
        /\ LET expense == expenses[last.id]
               entry == entries[CHOOSE id \in EntriesOf(entries, "expense", last.id) : TRUE]
               a == expense.amount
               v == expense.vat_amount
           IN  /\ entry.entry_date = expense.expense_date
               /\ Len(entry.lines) = 2
               /\ LineTriples(entry) = {<<"5100", a + v, 0>>, <<"2100", 0, a + v>>}
               /\ (a = Money(200, 0) /\ v = Money(10, 0))
                      => LineTriples(entry) = {<<"5100", Money(210, 0), 0>>,
                                               <<"2100", 0, Money(210, 0)>>}

\* The rule has posted the expense of 200 with 10 VAT as 210 and 210
ExpenseRuleLinesWitness ==
    /\ ExpenseRulePosted
    /\ expenses[last.id].amount = Money(200, 0)
    /\ expenses[last.id].vat_amount = Money(10, 0)
    /\ \E id \in EntriesOf(entries, "expense", last.id) :
           LineTriples(entries[id]) = {<<"5100", Money(210, 0), 0>>,
                                       <<"2100", 0, Money(210, 0)>>}


\* The journal rows with one entry locked (is_locked is a column no request writes)
Locked(ents, journal_id) == [ents EXCEPT ![journal_id].is_locked = TRUE]

\* C11: deleteEntry on a posted entry fails with a state conflict and leaves the
\* entry and its lines as they are; on an unposted, unlocked entry it removes
\* the entry with all its lines and nothing else; on a locked entry it fails
\* and changes nothing.
DeleteEntryGuarded ==
    /\ \A id \in DOMAIN entries :
           LET r == delete_journal_entry(entries, id)
               locked == delete_journal_entry(Locked(entries, id), id)
           IN  /\ entries[id].is_posted => r.res = "posted" /\ r.entries = entries
               /\ ~entries[id].is_posted /\ ~entries[id].is_locked
                      => /\ r.res = "ok"
                         /\ DOMAIN r.entries = DOMAIN entries \ {id}
                         /\ \A other \in DOMAIN r.entries : r.entries[other] = entries[other]
               /\ locked.res \in {"locked", "posted"}
               /\ locked.entries = Locked(entries, id)
    /\ last.op = "delete_journal_entry" => last.id \notin DOMAIN entries

\* An unposted entry has just been deleted while a posted entry, whose
\* deletion fails, is in the ledger
DeleteEntryGuardedWitness ==
    /\ last.op = "delete_journal_entry"
    /\ last.id \notin DOMAIN entries
    /\ \E id \in DOMAIN entries :
           /\ entries[id].is_posted
           /\ delete_journal_entry(entries, id).res = "posted"


PostedEntriesImmutable ==
    [][\A id \in DOMAIN entries :
           entries[id].is_posted
               => /\ id \in DOMAIN entries'
                  /\ entries'[id].is_posted
                  /\ entries'[id].lines = entries[id].lines
                  /\ entries'[id].entry_number = entries[id].entry_number
                  /\ entries'[id].entry_date = entries[id].entry_date]_vars


\* C14: a failure inside the booking or the expense rule (missing account,
\* unbalanced derivation, duplicate journal) neither blocks nor rolls back the
\* triggering request: create_booking and create_expense persist their row and
\* succeed whether or not the rule created an entry, and a rule that failed
\* leaves no entry and no line behind.
RuleFailureIsolated ==
    /\ \A booking_data \in BookingInputs :
           LET bid == minted.booking + 1
               r == create_booking(entries, minted.entry + 1, bookings, bid, booking_data)
           IN  booking_data.check_out > booking_data.check_in
                   => /\ r.res = "ok"
                      /\ DOMAIN r.bookings = DOMAIN bookings \cup {BookingId(bid)}
                      /\ \A id \in DOMAIN bookings : r.bookings[id] = bookings[id]
                      /\ r.rule # "ok" => r.entries = entries
                      /\ r.rule = "ok"
                             => /\ DOMAIN r.entries = DOMAIN entries \cup {EntryId(minted.entry + 1)}
                                /\ \A id \in DOMAIN entries : r.entries[id] = entries[id]
    /\ \A expense_data \in ExpenseInputs :
           LET xid == minted.expense + 1
               r == create_expense(entries, minted.entry + 1, expenses, xid, expense_data)
           IN  /\ r.res = "ok"
               /\ DOMAIN r.expenses = DOMAIN expenses \cup {ExpenseId(xid)}
               /\ \A id \in DOMAIN expenses : r.expenses[id] = expenses[id]
               /\ r.rule # "ok" => r.entries = entries
               /\ r.rule = "ok"
                      => /\ DOMAIN r.entries = DOMAIN entries \cup {EntryId(minted.entry + 1)}
                         /\ \A id \in DOMAIN entries : r.entries[id] = entries[id]
    /\ last.op = "create_booking" => last.id \in DOMAIN bookings
    /\ last.op = "create_expense" => last.id \in DOMAIN expenses

\* A booking has been created while an account of the booking rule was missing:
\* the booking is there, no entry of it is
RuleFailureIsolatedWitness ==
    /\ last.op = "create_booking"
    /\ last.rule = "account_not_found"
    /\ last.id \in DOMAIN bookings
    /\ EntriesOf(entries, "booking", last.id) = {}


\* C15: postEntry on an unposted, unlocked entry sets is_posted and stamps
\* posted_at and changes nothing else; on a posted entry or on a locked
\* entry it fails and applies no mutation (posted_at is not stamped again).
PostEntryGuarded ==
    \A id \in DOMAIN entries :
        LET r == post_journal_entry(entries, id)
            locked == post_journal_entry(Locked(entries, id), id)
        IN  /\ ~entries[id].is_posted /\ ~entries[id].is_locked
                   => /\ r.res = "ok"
                      /\ DOMAIN r.entries = DOMAIN entries
                      /\ r.entries[id].is_posted
                      /\ r.entries[id].posted_at = Stamp(today)
                      /\ \A field \in DOMAIN entries[id] \ {"is_posted", "posted_at"} :
                             r.entries[id][field] = entries[id][field]
                      /\ \A other \in DOMAIN entries \ {id} :
                             r.entries[other] = entries[other]
            /\ entries[id].is_posted
                   => r.res = "already_posted" /\ r.entries = entries
            /\ locked.res \in {"locked", "already_posted"}
            /\ locked.entries = Locked(entries, id)

\* An entry was posted on an earlier day: it carries that day's stamp, and
\* posting it again fails
PostEntryGuardedWitness ==
    /\ last.op = "post_journal_entry"
    /\ entries[last.id].is_posted
    /\ entries[last.id].posted_at = Stamp(1)
    /\ today > 1
    /\ post_journal_entry(entries, last.id).res = "already_posted"


\* The entries that reverse an entry: source 'adjustment', source_id its id
ReversalsOf(ents, journal_id) == EntriesOf(ents, "adjustment", journal_id)

\* C16: reverseEntry fails on an entry that is not posted and on an entry that
\* is already reversed; then no entry is created, no entry number is consumed
\* and the flags of the original stay as they are, so that calls in sequence
\* reverse an entry at most once.
ReverseEntryGuarded ==
    /\ \A id \in DOMAIN entries : \A loaded \in LoadOrders(entries[id].lines) :
           LET nid == minted.entry + 1
               r == reverse_journal_entry(entries, nid, id, loaded)
               again == reverse_journal_entry(r.entries, nid + 1, id, loaded)
           IN  /\ ~entries[id].is_posted
                      => r.res = "not_posted" /\ r.entries = entries
               /\ entries[id].is_posted /\ entries[id].is_reversed
                      => r.res = "already_reversed" /\ r.entries = entries
               /\ r.res = "ok"
                      => /\ again.res = "already_reversed"
                         /\ again.entries = r.entries
                         /\ generate_journal_number(again.entries)
                                = generate_journal_number(r.entries)
    /\ \A id \in DOMAIN entries : Cardinality(ReversalsOf(entries, id)) <= 1

\* An entry has been reversed and a second reversal of it fails
ReverseEntryGuardedWitness ==
    /\ last.op = "reverse_journal_entry"
    /\ entries[last.id].is_reversed
    /\ Cardinality(ReversalsOf(entries, last.id)) = 1
    /\ \A loaded \in LoadOrders(entries[last.id].lines) :
           reverse_journal_entry(entries, minted.entry + 1, last.id, loaded).res
               = "already_reversed"


\* The request names an account that no account row has
NamesUnknownAccount(entry_data) ==
    \E i \in 1..Len(entry_data.lines) :
        entry_data.lines[i].account_id \notin DOMAIN accounts

\* C17: createEntry fails with a validation error on fewer than 2 lines, those
\* of equal debits and credits included, and on a line whose account does not
\* exist, and then persists neither the header nor any line; on success the
\* entry is unposted and each line's line_order is its 0-based input index.
CreateEntryValidated ==
    /\ \A entry_data \in ManualEntries :
           LET r == create_journal_entry(entries, minted.entry + 1, entry_data, Rows(bookings, expenses))
           IN  /\ Len(entry_data.lines) < 2 \/ NamesUnknownAccount(entry_data)
                      => /\ r.res \in {"unbalanced", "too_few_lines", "unknown_account"}
                         /\ r.entries = entries
               /\ r.res = "ok"
                      => /\ DOMAIN r.entries = DOMAIN entries \cup {r.id}
                         /\ r.id \notin DOMAIN entries
                         /\ ~r.entries[r.id].is_posted
                         /\ Len(r.entries[r.id].lines) = Len(entry_data.lines)
                         /\ \A i \in 1..Len(entry_data.lines) :
                                /\ r.entries[r.id].lines[i].line_order = i - 1
                                /\ r.entries[r.id].lines[i].account_id
                                       = entry_data.lines[i].account_id
    /\ last.op = "create_journal_entry"
           => /\ last.id \in DOMAIN entries
              /\ ~entries[last.id].is_posted
              /\ Len(entries[last.id].lines) >= 2
              /\ \A i \in 1..Len(entries[last.id].lines) :
                     /\ entries[last.id].lines[i].line_order = i - 1
                     /\ entries[last.id].lines[i].account_id \in DOMAIN accounts

\* An entry has just been created, and in the same state a request of no
\* lines, one of a single line and one naming a deleted account are refused
CreateEntryValidatedWitness ==
    /\ last.op = "create_journal_entry"
    /\ last.id \in DOMAIN entries
    /\ ~entries[last.id].is_posted
    /\ \E entry_data \in ManualEntries :
           /\ Len(entry_data.lines) = 0
           /\ create_journal_entry(entries, minted.entry + 1, entry_data, Rows(bookings, expenses)).res
                  = "too_few_lines"
    /\ \E entry_data \in ManualEntries :
           /\ Len(entry_data.lines) = 1
           /\ create_journal_entry(entries, minted.entry + 1, entry_data, Rows(bookings, expenses)).res
                  = "too_few_lines"
    /\ \E entry_data \in ManualEntries :
           /\ Len(entry_data.lines) >= 2
           /\ create_journal_entry(entries, minted.entry + 1, entry_data, Rows(bookings, expenses)).res
                  = "unknown_account"


\* C18: the deletion of an account fails for a system account and for an
\* account that a journal line references, and leaves the account in place;
\* so every persisted journal line's account_id is the id of an account.
AccountDeletionGuarded ==
    /\ \A id \in DOMAIN accounts :
           LET r == delete_account(accounts, id)
           IN  /\ accounts[id].is_system
                      => r.res = "system_account" /\ r.accounts = accounts
               /\ AccountLines(id) # {}
                      => r.res \in {"system_account", "in_use"} /\ r.accounts = accounts
               /\ r.res = "ok"
                      => /\ DOMAIN r.accounts = DOMAIN accounts \ {id}
                         /\ \A e \in DOMAIN entries : \A i \in 1..Len(entries[e].lines) :
                                entries[e].lines[i].account_id \in DOMAIN r.accounts
    /\ \A id \in DOMAIN entries : \A i \in 1..Len(entries[id].lines) :
           entries[id].lines[i].account_id \in DOMAIN accounts
    /\ last.op = "delete_account"
           => last.id \notin DOMAIN accounts /\ AccountLines(last.id) = {}

\* An account has just been deleted while journal lines exist, the deletion of
\* an account they reference is refused and so is that of a system account
AccountDeletionGuardedWitness ==
    /\ last.op = "delete_account"
    /\ last.id \notin DOMAIN accounts
    /\ \E id \in DOMAIN accounts :
           /\ ~accounts[id].is_system
           /\ AccountLines(id) # {}
           /\ delete_account(accounts, id).res = "in_use"
    /\ \E id \in DOMAIN accounts :
           /\ accounts[id].is_system
           /\ delete_account(accounts, id).res = "system_account"


\* No two account rows of `accts` have the same code
UniqueCodes(accts) ==
    \A a, b \in DOMAIN accts : accts[a].code = accts[b].code => a = b

\* Every account of `accts` that `after` still has keeps its code
CodesKept(accts, after) ==
    \A id \in DOMAIN accts \cap DOMAIN after : after[id].code = accts[id].code

\* C19: account codes are unique and immutable: create fails and persists
\* nothing when an account of the same code exists, and no create, update or
\* delete changes the code of an account or yields two accounts of one code.
AccountCodesUniqueImmutable ==
    /\ UniqueCodes(accounts)
    /\ \A account_data \in AccountInputs :
           LET r == create_account(accounts, account_data)
           IN  /\ (\E id \in DOMAIN accounts : accounts[id].code = account_data.code)
                      => r.res = "duplicate_code" /\ r.accounts = accounts
               /\ DOMAIN accounts \subseteq DOMAIN r.accounts
               /\ CodesKept(accounts, r.accounts)
               /\ UniqueCodes(r.accounts)
    /\ \A id \in DOMAIN accounts :
           /\ \A body \in AccountUpdates :
                  LET r == update_account(accounts, id, AccountUpdate(body))
                  IN  /\ r.res = "ok"
                      /\ DOMAIN r.accounts = DOMAIN accounts
                      /\ CodesKept(accounts, r.accounts)
                      /\ UniqueCodes(r.accounts)
           /\ LET r == delete_account(accounts, id)
              IN  CodesKept(accounts, r.accounts) /\ UniqueCodes(r.accounts)
    /\ last.op \in {"create_account", "update_account"}
           => last.id \in DOMAIN accounts

\* An account has just been created, a second account of its code is refused,
\* and an update whose body names another code leaves its code as it is
AccountCodesUniqueImmutableWitness ==
    /\ last.op = "create_account"
    /\ last.id \in DOMAIN accounts
    /\ \E account_data \in AccountInputs :
           /\ account_data.code = accounts[last.id].code
           /\ create_account(accounts, account_data).res = "duplicate_code"
    /\ \E body \in AccountUpdates :
           /\ "code" \in DOMAIN body
           /\ body.code # accounts[last.id].code
           /\ update_account(accounts, last.id, AccountUpdate(body)).accounts[last.id].code
                  = accounts[last.id].code


\* The lines of an entry with debit and credit swapped, as a set
SwappedLines(entry) ==
    {<<entry.lines[i].account_id, entry.lines[i].credit, entry.lines[i].debit>> :
        i \in 1..Len(entry.lines)}

\* The lines of an entry as a set
PersistedLines(entry) ==
    {<<entry.lines[i].account_id, entry.lines[i].debit, entry.lines[i].credit>> :
        i \in 1..Len(entry.lines)}

\* In the rows `ents` an entry is flagged reversed exactly when its reversing
\* entry exists, and the flag points to it
ReversalPaired(ents) ==
    \A id \in DOMAIN ents :
        /\ ents[id].is_reversed
               => /\ ents[id].reversed_by_id \in ReversalsOf(ents, id)
                  /\ ents[ents[id].reversed_by_id].is_posted
                  /\ PersistedLines(ents[ents[id].reversed_by_id])
                         = SwappedLines(ents[id])
        /\ \A reversal \in ReversalsOf(ents, id) :
               ents[id].is_reversed /\ ents[id].reversed_by_id = reversal

\* C20: reversal is atomic: every committed state pairs a flagged entry with
\* its reversing entry and that entry's full set of swapped lines, and no
\* later state shows a flagged entry whose reversing entry, or a line of it,
\* is missing.
ReversalAtomic ==
    [][/\ ReversalPaired(entries')
       /\ \A id \in DOMAIN entries :
              entries[id].is_reversed
                  => /\ id \in DOMAIN entries'
                     /\ entries'[id].is_reversed
                     /\ entries'[id].reversed_by_id = entries[id].reversed_by_id
                     /\ entries[id].reversed_by_id \in DOMAIN entries'
                     /\ entries'[entries[id].reversed_by_id].lines
                            = entries[entries[id].reversed_by_id].lines]_vars


\* C21: an entry goes Draft -> Posted -> Reversed, or Draft -> Deleted:
\* is_posted and is_reversed never go from true to false, an entry becomes
\* reversed only while posted, only an unposted entry is deleted, and a
\* reversed entry stays posted and reversed.
EntryLifecycle ==
    [][\A id \in DOMAIN entries :
          /\ id \notin DOMAIN entries' => ~entries[id].is_posted
          /\ id \in DOMAIN entries'
                 => /\ entries[id].is_posted => entries'[id].is_posted
                    /\ entries[id].is_reversed => entries'[id].is_reversed
                    /\ ~entries[id].is_reversed /\ entries'[id].is_reversed
                           => entries[id].is_posted
                    /\ entries'[id].is_reversed => entries'[id].is_posted]_vars

\* An entry has gone from draft to posted to reversed, and neither its
\* deletion nor a second posting is accepted
EntryLifecycleWitness ==
    /\ last.op = "reverse_journal_entry"
    /\ last.id \in DOMAIN entries
    /\ entries[last.id].is_posted /\ entries[last.id].is_reversed
    /\ entries[last.id].source = "manual"
    /\ delete_journal_entry(entries, last.id).res = "posted"
    /\ post_journal_entry(entries, last.id).res = "already_posted"


\* C22: for every booking whose gross_revenue, platform_commission and
\* cleaning_fee are not negative, the lines the booking rule derives number at
\* least 2 and their debits sum to their credits, so createEntry accepts them.
BookingRuleBalanced ==
    \A booking_id \in DOMAIN bookings :
        LET booking == bookings[booking_id]
            lines == BookingLines(booking_id, booking)
        IN  /\ gross_revenue(booking) >= 0
            /\ booking.platform_commission >= 0
            /\ booking.cleaning_fee >= 0
            => /\ Len(lines) >= 2
               /\ SumDebit(lines) = SumCredit(lines)
               /\ validate_journal_balance(lines)


\* The journal_lines rows the booking rule writes for a booking row
BookingJournalLines(booking_id, booking) ==
    LET lines == BookingLines(booking_id, booking)
    IN  [i \in 1..Len(lines) |-> JournalLine(lines[i], i - 1)]

\* The entries of a booking that the booking rule wrote: every line of such an
\* entry carries the booking's id
AutoGenerated(ents, booking_id) ==
    {id \in EntriesOf(ents, "booking", booking_id) :
        /\ ents[id].lines # <<>>
        /\ \A i \in 1..Len(ents[id].lines) : ents[id].lines[i].booking_id = booking_id}

\* C23: when update_booking changes a financial field of a booking whose
\* entry is unposted, the entry is deleted and replaced: afterwards exactly one
\* entry of the booking exists and its lines are those of the updated booking;
\* when the entry is posted it stays as it is and no second entry is created.
BookingUpdateRegenerates ==
    \A booking_id \in DOMAIN bookings : \A update_data \in BookingUpdates :
        LET r == update_booking(entries, minted.entry + 1, bookings, booking_id,
                                update_data)
            old == AutoGenerated(entries, booking_id)
            new == EntriesOf(r.entries, "booking", booking_id)
        IN  DOMAIN update_data \cap financial_fields # {} /\ r.res = "ok" /\ old # {}
            => /\ (\A id \in old : ~entries[id].is_posted)
                      => /\ Cardinality(new) = 1
                         /\ new \cap old = {}
                         /\ \A id \in new :
                                r.entries[id].lines
                                    = BookingJournalLines(booking_id,
                                                          r.bookings[booking_id])
               /\ (\E id \in old : entries[id].is_posted)
                      => r.entries = entries


\* C24: a failure of the ledger while a deposit transaction is recorded, such
\* as a missing account 1102, 2302 or 4301, does not fail the request: the
\* deposit transaction record is persisted all the same.
DepositLedgerFailureIsolated ==
    \A transaction \in DepositInputs :
        LET r == create_deposit_transaction(entries, minted.entry + 1,
                                            deposit_transactions, transaction)
        IN  /\ transaction.tenancy_id \in DOMAIN tenancies
            /\ transaction.transaction_type \in {"received", "refund", "deduction"}
            => /\ r.res = "ok"
               /\ Len(r.deposit_transactions) = Len(deposit_transactions) + 1
               /\ r.deposit_transactions[Len(r.deposit_transactions)].transaction_type
                      = transaction.transaction_type


\* The longest continuation of a tenancy's history that is classified
MaxSuffix == 2

\* Continuations of a history: up to MaxSuffix further deposit_transactions rows
DepositSuffixes ==
    LET rows == {[transaction_type |-> type, amount |-> amount] :
                    type \in {"received", "refund", "deduction"},
                    amount \in {Money(500, 0), Money(2000, 0)}}
    IN  UNION {[1..n -> rows] : n \in 0..MaxSuffix}

DepositStatuses == {"pending", "received", "partially_refunded", "refunded", "forfeited"}

\* C25: calculate_deposit_status classifies a history by R, D, F and
\* balance = R - D - F: pending if R = 0, else forfeited if balance <= 0 and
\* D >= R, refunded if balance <= 0 and D < R, partially_refunded if
\* balance > 0 and a deduction or refund occurred, received otherwise; the
\* result is one of the five statuses and exactly one case applies.
DepositStatusClassified ==
    \A tenancy_id \in DOMAIN tenancies : \A suffix \in DepositSuffixes :
        LET history == OfTenancy(deposit_transactions, tenancy_id) \o suffix
            R == SumAmount(history, "received")
            D == SumAmount(history, "deduction")
            F == SumAmount(history, "refund")
            balance == R - D - F
            cases ==
                {status \in DepositStatuses :
                    \/ status = "pending" /\ R = 0
                    \/ status = "forfeited" /\ R # 0 /\ balance <= 0 /\ D >= R
                    \/ status = "refunded" /\ R # 0 /\ balance <= 0 /\ D < R
                    \/ status = "partially_refunded" /\ R # 0 /\ balance > 0
                           /\ (D > 0 \/ F > 0)
                    \/ status = "received" /\ R # 0 /\ balance > 0
                           /\ ~(D > 0 \/ F > 0)}
        IN  /\ calculate_deposit_status(history) \in DepositStatuses
            /\ cases = {calculate_deposit_status(history)}

\* A deposit has been received, and the histories that continue it are
\* classified received, partially_refunded, refunded and forfeited
DepositStatusClassifiedWitness ==
    /\ last.op = "create_deposit_transaction"
    /\ SumAmount(OfTenancy(deposit_transactions, last.id), "received") > 0
    /\ \A status \in DepositStatuses \ {"pending"} :
           \E suffix \in DepositSuffixes :
               calculate_deposit_status(OfTenancy(deposit_transactions, last.id)
                                            \o suffix) = status


\* The account codes a deposit entry debits and credits, by transaction type:
\* Bank 1102, Deposit Held 2302, Deposit Forfeiture Income 4301
DepositAccounts(transaction_type) ==
    CASE transaction_type = "received" -> <<"1102", "2302">>
      [] transaction_type = "refund" -> <<"2302", "1102">>
      [] transaction_type = "deduction" -> <<"2302", "4301">>

\* The entry is the posted two-line entry of the deposit_transactions row
IsDepositEntry(entry, row) ==
    /\ entry.is_posted
    /\ entry.source = "adjustment"
    /\ entry.source_id = row.tenancy_id
    /\ Len(entry.lines) = 2
    /\ accounts[entry.lines[1].account_id].code = DepositAccounts(row.transaction_type)[1]
    /\ accounts[entry.lines[2].account_id].code = DepositAccounts(row.transaction_type)[2]
    /\ entry.lines[1].debit = row.amount /\ entry.lines[1].credit = 0
    /\ entry.lines[2].debit = 0 /\ entry.lines[2].credit = row.amount
    /\ SumDebit(entry.lines) = SumCredit(entry.lines)

PersistedEntriesBalanced ==
    \A id \in DOMAIN entries :
        /\ Len(entries[id].lines) >= 2
        /\ SumDebit(entries[id].lines) = SumCredit(entries[id].lines)


\* C28: under concurrent requests an entry is reversed at most once: at most
\* one reversing entry with source_id = original.id is persisted, and the
\* original's reversed_by_id points to it.
ReversedOnceConcurrently ==
    \A id \in DOMAIN entries :
        /\ Cardinality(ReversalsOf(entries, id)) <= 1
        /\ \A reversal \in ReversalsOf(entries, id) :
               entries[id].is_reversed /\ entries[id].reversed_by_id = reversal


\* C29: under concurrent requests at most one journal entry exists per
\* booking: two invocations of the booking rule for one booking never leave
\* two persisted entries with source 'booking' and source_id the booking's id.
OneJournalPerBooking ==
    \A booking_id \in DOMAIN bookings :
        Cardinality(EntriesOf(entries, "booking", booking_id)) <= 1


=============================================================================
